---- MODULE Spec2Model ----
(***************************************************************************)
(* Telemonitor: the configuration store (telemonitor/helpers.py,           *)
(* TM_Config) with its schema reconciliation (config_check), and the       *)
(* systemd service lifecycle manager                                       *)
(* (telemonitor/extensions/systemd_service/__init__.py).                   *)
(*                                                                         *)
(* Python dictionaries are mutable objects that the code shares by         *)
(* reference, so the model keeps them in a heap: an object id is a path    *)
(* tuple, <<"DEF">> for DEF_CFG, <<"DEF", "bot">> for DEF_CFG["bot"],      *)
(* <<"cfg">> for the dictionary TM_Config.__config refers to.  A value of  *)
(* kind "dict" inside an object is a reference to another object.  The     *)
(* backing file holds a tree (json.dump follows the references, json.load  *)
(* builds fresh objects).  Dictionaries keep their insertion order, which  *)
(* the loops of config_check observe, so an object is a sequence of        *)
(* entries [k, v].                                                         *)
(***************************************************************************)
EXTENDS Integers, Sequences, FiniteSets, TLC

VARIABLES
    heap,             \* object id -> sequence of entries: every live dict
    config_file,      \* the file at PATH_CFG: [exists, content, mtime]
    __last_mod_time,  \* TM_Config.__last_mod_time (None before the first load)
    unit_file,        \* the file at __service_config_final_path
    pc,               \* position of the running call
    config0,          \* the document config_check was called with (a tree)
    ret,              \* result of the last call
    exc,              \* exception that ended the last call, or "none"
    did_read,         \* whether the last get() opened the backing file
    args,             \* the parsed command line (telemonitor.main.args)
    log,              \* what the last call did, in order
    platform          \* sys.platform

vars == <<heap, config_file, __last_mod_time, unit_file, pc, config0, ret, exc,
          did_read, args, log, platform>>

-----------------------------------------------------------------------------
(* Bounds of the model *)

\* length of the whitelist a user document holds
WhitelistLen == 2
\* largest modification time of the backing file the model follows
MaxTime == 3

-----------------------------------------------------------------------------
(* Values *)

IntV(n) == [kind |-> "int", num |-> n]
StrV(s) == [kind |-> "str", str |-> s]
BoolV(b) == [kind |-> "bool", bool |-> b]
ListV(q) == [kind |-> "list", list |-> q]
\* a reference to the dict object id (heap values)
Ref(id) == [kind |-> "dict", obj |-> id]
\* a nested document written out (file content)
Doc(entries) == [kind |-> "dict", dict |-> entries]
Entry(key, value) == [k |-> key, v |-> value]

None == -1

\* no file at PATH_CFG, no file at __service_config_final_path
NoFile == [exists |-> FALSE, content |-> <<>>, mtime |-> 0]
NoUnit == [exists |-> FALSE, text |-> <<>>]
\* a command line with no option given
NoArgs == [disable_config_check |-> FALSE, overwrite |-> FALSE]

Keys(d) == {d[i].k : i \in DOMAIN d}
Has(d, key) == \E i \in DOMAIN d : d[i].k = key
Idx(d, key) == CHOOSE i \in DOMAIN d : d[i].k = key
Item(d, key) == d[Idx(d, key)].v
\* d[key] = value: an existing key keeps its place, a new one goes last
SetItem(d, key, value) ==
    IF Has(d, key) THEN [d EXCEPT ![Idx(d, key)].v = value]
    ELSE Append(d, Entry(key, value))
DelItem(d, key) == SelectSeq(d, LAMBDA e : e.k # key)
\* d.get(key, default)
GetOr(d, key, default) == IF Has(d, key) THEN Item(d, key) ELSE default

\* name = value, then the statements that follow it, written
\* With([name \in {value} |-> statements]): the value is computed once, where
\* the assignment stands
With(f) == f[CHOOSE x \in DOMAIN f : TRUE]

-----------------------------------------------------------------------------
(* Program constants *)

MAX_LOGS == 30
__version == 1

DEF_ROOT == <<"DEF">>
CFG_ROOT == <<"cfg">>

\* DEF_CFG as the module creates it: three dict objects
DEF_CFG ==
    (DEF_ROOT :> << Entry("config_version", IntV(2)),
                    Entry("log_files_max", IntV(MAX_LOGS)),
                    Entry("bot", Ref(<<"DEF", "bot">>)),
                    Entry("systemd_service", Ref(<<"DEF", "systemd_service">>)) >>)
    @@ (<<"DEF", "bot">> :> << Entry("token", StrV("")),
                               Entry("whitelisted_users", ListV(<<>>)),
                               Entry("state_notifications", BoolV(TRUE)),
                               Entry("enable_file_transfer", BoolV(TRUE)) >>)
    @@ (<<"DEF", "systemd_service">> :> << Entry("version", IntV(-1)) >>)

-----------------------------------------------------------------------------
(* json.dump and json.load *)

\* json.dump(obj): the tree under the object id, references followed
RECURSIVE Dump(_, _)
Dump(h, id) ==
    [i \in DOMAIN h[id] |->
        IF h[id][i].v.kind = "dict"
        THEN Entry(h[id][i].k, Doc(Dump(h, h[id][i].v.obj)))
        ELSE h[id][i]]

\* json.load: fresh dict objects for the tree, the root at id
RECURSIVE Load(_, _)
RECURSIVE LoadChildren(_, _, _)
LoadChildren(entries, id, i) ==
    IF i > Len(entries) THEN <<>>
    ELSE IF entries[i].v.kind = "dict"
         THEN Load(entries[i].v.dict, Append(id, entries[i].k))
              @@ LoadChildren(entries, id, i + 1)
         ELSE LoadChildren(entries, id, i + 1)
Load(entries, id) ==
    (id :> [i \in DOMAIN entries |->
              IF entries[i].v.kind = "dict"
              THEN Entry(entries[i].k, Ref(Append(id, entries[i].k)))
              ELSE entries[i]])
    @@ LoadChildren(entries, id, 1)

\* the objects reachable from an object
RECURSIVE Reach(_, _)
Reach(h, id) ==
    {id} \cup UNION {Reach(h, h[id][i].v.obj) :
                        i \in {j \in DOMAIN h[id] : h[id][j].v.kind = "dict"}}

\* objects nothing refers to any more are gone
Collect(h) ==
    LET live == Reach(h, DEF_ROOT) \cup Reach(h, CFG_ROOT)
    IN  [id \in live |-> h[id]]

\* the objects of DEF_CFG
DefObjects(h) == [id \in Reach(h, DEF_ROOT) |-> h[id]]

\* TM_Config.__config = json.load(f)
Rebind(h, tree) == DefObjects(h) @@ Load(tree, CFG_ROOT)

-----------------------------------------------------------------------------
(* Python's operators on a value that may or may not be a dict *)

\* `key in c` raises TypeError for a value that is no container
InRaises(c) == c.kind \in {"int", "bool"}
\* `key in c`: a key of a dict, an element of a list, a substring of a str.
\* The lists of the model hold integers, which no key equals; a str of the
\* model contains a key only when it is that key.
In(h, key, c) ==
    CASE c.kind = "dict" -> Has(h[c.obj], key)
      [] c.kind = "str" -> c.str = key
      [] OTHER -> FALSE
\* the exception of `c[key]` for a str key, or "none"
SubscriptExc(h, key, c) ==
    IF c.kind = "dict" THEN (IF Has(h[c.obj], key) THEN "none" ELSE "KeyError")
    ELSE "TypeError"

-----------------------------------------------------------------------------
(* TM_Config.config_check and its three inner functions.  Each returns      *)
(* [h, ret, exc]: the heap it leaves, its return value, and the exception   *)
(* that ended it ("none" when it returned).                                 *)

\* special_update_check reading the token under its new name, "token",
\* instead of the version 1 name "api_key"
special_update_check_new_name(h) ==
    LET config == h[CFG_ROOT]
        bot == <<"cfg", "bot">>
        def_bot == h[Item(h[DEF_ROOT], "bot").obj]
        new_bot ==
            << Entry("token", GetOr(config, "token", StrV(""))),
               Entry("whitelisted_users",
                     GetOr(config, "whitelisted_users", ListV(<<>>))),
               Entry("state_notifications",
                     GetOr(config, "state_notifications",
                           Item(def_bot, "state_notifications"))),
               Entry("enable_file_transfer",
                     GetOr(config, "enable_file_transfer",
                           Item(def_bot, "enable_file_transfer"))) >>
    IN  IF ~Has(config, "config_version")
        THEN [h |-> Collect((bot :> new_bot)
                            @@ [h EXCEPT ![CFG_ROOT] = SetItem(@, "bot", Ref(bot))]),
              ret |-> TRUE, exc |-> "none"]
        ELSE [h |-> h, ret |-> FALSE, exc |-> "none"]

\* special_update_check that migrates without testing for "config_version"
special_update_check_untested(h) ==
    LET config == h[CFG_ROOT]
        bot == <<"cfg", "bot">>
        def_bot == h[Item(h[DEF_ROOT], "bot").obj]
        new_bot ==
            << Entry("token", GetOr(config, "api_key", StrV(""))),
               Entry("whitelisted_users",
                     GetOr(config, "whitelisted_users", ListV(<<>>))),
               Entry("state_notifications",
                     GetOr(config, "state_notifications",
                           Item(def_bot, "state_notifications"))),
               Entry("enable_file_transfer",
                     GetOr(config, "enable_file_transfer",
                           Item(def_bot, "enable_file_transfer"))) >>
    IN  [h |-> Collect((bot :> new_bot)
                       @@ [h EXCEPT ![CFG_ROOT] = SetItem(@, "bot", Ref(bot))]),
         ret |-> TRUE, exc |-> "none"]

\* special_update_check: a config without "config_version" is of version 1
special_update_check(h) ==
    LET config == h[CFG_ROOT]
        bot == <<"cfg", "bot">>
        def_bot == h[Item(h[DEF_ROOT], "bot").obj]
        new_bot ==
            << Entry("token", GetOr(config, "api_key", StrV(""))),
               Entry("whitelisted_users",
                     GetOr(config, "whitelisted_users", ListV(<<>>))),
               Entry("state_notifications",
                     GetOr(config, "state_notifications",
                           Item(def_bot, "state_notifications"))),
               Entry("enable_file_transfer",
                     GetOr(config, "enable_file_transfer",
                           Item(def_bot, "enable_file_transfer"))) >>
    IN  IF ~Has(config, "config_version")
        THEN [h |-> Collect((bot :> new_bot)
                            @@ [h EXCEPT ![CFG_ROOT] = SetItem(@, "bot", Ref(bot))]),
              ret |-> TRUE, exc |-> "none"]
        ELSE [h |-> h, ret |-> FALSE, exc |-> "none"]

RECURSIVE remove_deprecated(_, _, _)
RECURSIVE remove_deprecated_loop(_, _, _, _, _, _)
\* the loop body for the i-th item of list(user_config.items())
remove_deprecated_loop(h, default_config, user_config, items, i, has_deprecated_values) ==
    IF i > Len(items)
    THEN [h |-> h, ret |-> has_deprecated_values, exc |-> "none"]
    ELSE
      LET k == items[i].k
          v == items[i].v
      IN  IF v.kind = "dict"
          THEN IF SubscriptExc(h, k, default_config) # "none"
               THEN [h |-> h, ret |-> has_deprecated_values,
                     exc |-> SubscriptExc(h, k, default_config)]
               ELSE LET r == remove_deprecated(h, Item(h[default_config.obj], k), v)
                    IN  IF r.exc # "none" THEN r
                        ELSE remove_deprecated_loop(r.h, default_config, user_config,
                                                    items, i + 1, r.ret)
          ELSE IF InRaises(default_config)
               THEN [h |-> h, ret |-> has_deprecated_values, exc |-> "TypeError"]
               ELSE IF ~In(h, k, default_config)
                    THEN remove_deprecated_loop(
                             [h EXCEPT ![user_config.obj] = DelItem(@, k)],
                             default_config, user_config, items, i + 1, TRUE)
                    ELSE remove_deprecated_loop(h, default_config, user_config,
                                                items, i + 1, has_deprecated_values)
\* remove_deprecated with has_deprecated_values starting as True
remove_deprecated_starts_true(h, default_config, user_config) ==
    remove_deprecated_loop(h, default_config, user_config,
                           h[user_config.obj], 1, TRUE)
remove_deprecated(h, default_config, user_config) ==
    remove_deprecated_loop(h, default_config, user_config,
                           h[user_config.obj], 1, FALSE)

RECURSIVE add_new_keys(_, _, _)
RECURSIVE add_new_keys_loop(_, _, _, _, _, _)
\* the loop body for the i-th item of list(default_config.items())
add_new_keys_loop(h, default_config, user_config, items, i, up_to_date) ==
    IF i > Len(items)
    THEN [h |-> h, ret |-> up_to_date, exc |-> "none"]
    ELSE
      LET k == items[i].k
          v == items[i].v
      IN  IF InRaises(user_config)
          THEN [h |-> h, ret |-> up_to_date, exc |-> "TypeError"]
          ELSE IF v.kind = "dict"
          THEN IF ~In(h, k, user_config)
               THEN IF user_config.kind # "dict"
                    THEN [h |-> h, ret |-> up_to_date, exc |-> "TypeError"]
                    ELSE add_new_keys_loop(
                             [h EXCEPT ![user_config.obj] = SetItem(@, k, v)],
                             default_config, user_config, items, i + 1, FALSE)
               ELSE IF SubscriptExc(h, k, user_config) # "none"
                    THEN [h |-> h, ret |-> up_to_date,
                          exc |-> SubscriptExc(h, k, user_config)]
                    ELSE LET r == add_new_keys(h, v, Item(h[user_config.obj], k))
                         IN  IF r.exc # "none" THEN r
                             ELSE add_new_keys_loop(r.h, default_config, user_config,
                                                    items, i + 1, r.ret)
          ELSE IF ~In(h, k, user_config)
               THEN IF user_config.kind # "dict"
                    THEN [h |-> h, ret |-> FALSE, exc |-> "AttributeError"]
                    ELSE add_new_keys_loop(
                             [h EXCEPT ![user_config.obj] = SetItem(@, k, v)],
                             default_config, user_config, items, i + 1, FALSE)
               ELSE add_new_keys_loop(h, default_config, user_config,
                                      items, i + 1, up_to_date)
\* add_new_keys that does not descend into the sub-documents
add_new_keys_shallow(h, default_config, user_config) ==
    IF default_config.obj = DEF_ROOT
    THEN add_new_keys_loop(h, default_config, user_config,
                           h[default_config.obj], 1, TRUE)
    ELSE [h |-> h, ret |-> TRUE, exc |-> "none"]
add_new_keys(h, default_config, user_config) ==
    add_new_keys_loop(h, default_config, user_config,
                      h[default_config.obj], 1, TRUE)

\* config_check that calls add_new_keys before remove_deprecated
config_check_add_first(h) ==
    With([special_check \in {special_update_check(h)} |->
    With([any_new \in {add_new_keys(special_check.h, Ref(DEF_ROOT), Ref(CFG_ROOT))} |->
    With([log2 \in {<< [call |-> "special_update_check",
                        doc |-> Dump(special_check.h, CFG_ROOT)],
                       [call |-> "add_new_keys",
                        doc |-> Dump(any_new.h, CFG_ROOT)] >>} |->
        IF any_new.exc # "none"
        THEN [h |-> Collect(any_new.h), ret |-> <<>>,
              exc |-> any_new.exc, log |-> log2]
        ELSE
    With([any_deprecated \in {remove_deprecated(any_new.h, Ref(DEF_ROOT), Ref(CFG_ROOT))} |->
    With([log3 \in {Append(log2, [call |-> "remove_deprecated",
                                  doc |-> Dump(any_deprecated.h, CFG_ROOT)])} |->
        IF any_deprecated.exc # "none"
        THEN [h |-> Collect(any_deprecated.h), ret |-> <<>>,
              exc |-> any_deprecated.exc, log |-> log3]
        ELSE [h |-> Collect(any_deprecated.h),
              ret |-> <<any_new.ret, any_deprecated.ret, special_check.ret>>,
              exc |-> "none", log |-> log3]])])])])])

\* config_check(config) with config the object at CFG_ROOT: the three calls
\* in the order of the source, and the tuple it returns.  log lists the
\* calls made, each with the user document it left.
config_check(h) ==
    With([special_check \in {special_update_check(h)} |->
    With([any_deprecated \in {remove_deprecated(special_check.h, Ref(DEF_ROOT), Ref(CFG_ROOT))} |->
    With([log2 \in {<< [call |-> "special_update_check",
            doc |-> Dump(special_check.h, CFG_ROOT)],
           [call |-> "remove_deprecated",
            doc |-> Dump(any_deprecated.h, CFG_ROOT)] >>} |->
        IF any_deprecated.exc # "none"
        THEN [h |-> Collect(any_deprecated.h), ret |-> <<>>,
              exc |-> any_deprecated.exc, log |-> log2]
        ELSE
    With([any_new \in {add_new_keys(any_deprecated.h, Ref(DEF_ROOT), Ref(CFG_ROOT))} |->
    With([log3 \in {Append(log2, [call |-> "add_new_keys",
                      doc |-> Dump(any_new.h, CFG_ROOT)])} |->
        IF any_new.exc # "none"
        THEN [h |-> Collect(any_new.h), ret |-> <<>>,
              exc |-> any_new.exc, log |-> log3]
        ELSE [h |-> Collect(any_new.h),
              ret |-> <<any_new.ret, any_deprecated.ret, special_check.ret>>,
              exc |-> "none", log |-> log3]])])])])])

-----------------------------------------------------------------------------
(* TM_Config: the cached read, the write, the start-up.  The operators work *)
(* on a record st = [heap, file, last, unit] of the program's state: the    *)
(* objects, the backing file, __last_mod_time, the unit file.               *)

is_exist(file) == file.exists

\* is_modified with >= for >
is_modified_or_equal(last, file) ==
    IF last = None THEN TRUE ELSE file.mtime >= last

\* is_modified: True on the first request and when the file is newer than
\* the loaded values
is_modified(last, file) ==
    IF last = None THEN TRUE ELSE file.mtime > last

\* get(): [st, read, exc].  The value it returns is the object at CFG_ROOT.
\* Without the file, open() or getmtime() raises.
get(st) ==
    IF ~st.file.exists
    THEN [st |-> st, read |-> FALSE, exc |-> "FileNotFoundError"]
    ELSE IF is_modified(st.last, st.file)
    THEN [st |-> [st EXCEPT !.heap = Rebind(@, st.file.content),
                            !.last = st.file.mtime],
          read |-> TRUE, exc |-> "none"]
    ELSE [st |-> st, read |-> FALSE, exc |-> "none"]

\* the time a write leaves on the file: the clock does not run backwards,
\* and has either advanced since the file's time (later) or not.  Times are
\* only compared, so one later time stands for all; the model follows no
\* time beyond MaxTime.
Stamp(file, later) ==
    IF later /\ file.mtime < MaxTime THEN file.mtime + 1 ELSE file.mtime

\* write(config_dict): the whole file is rewritten
write(st, id, later) ==
    [st EXCEPT !.file = [exists |-> TRUE, content |-> Dump(st.heap, id),
                         mtime |-> Stamp(st.file, later)]]

\* create(): write(DEF_CFG)
create(st, later) == write(st, DEF_ROOT, later)

\* TM_Config.__init__ with the command line a; later1 is for create()'s
\* write, later2 for the write after the check.  [st, at, exc, log]: at is
\* "exited" when the first start ends the process, "initialized" when
\* __init__ returned, "raised" when an exception left it.
tm_config_init(st, a, later1, later2) ==
    With([created \in {IF ~is_exist(st.file) THEN create(st, later1) ELSE st} |->
        IF ~is_exist(st.file) /\ ~a.overwrite
        THEN [st |-> created, at |-> "exited", exc |-> "none", log |-> <<>>]
        ELSE
    With([cfg \in {get(created)} |->
        IF a.disable_config_check
        THEN [st |-> cfg.st, at |-> "initialized", exc |-> "none", log |-> <<>>]
        ELSE
    With([checked \in {config_check(cfg.st.heap)} |->
    With([st_checked \in {[cfg.st EXCEPT !.heap = checked.h]} |->
        IF checked.exc # "none"
        THEN [st |-> st_checked, at |-> "raised", exc |-> checked.exc,
              log |-> checked.log]
        ELSE IF ~checked.ret[1] \/ checked.ret[2] \/ checked.ret[3]
        THEN [st |-> write(st_checked, CFG_ROOT, later2), at |-> "initialized",
              exc |-> "none", log |-> checked.log]
        ELSE [st |-> st_checked, at |-> "initialized", exc |-> "none",
              log |-> checked.log]])])])])

-----------------------------------------------------------------------------
(* The systemd service extension.  Every operator returns [st, ret, exc].   *)
(* A file operation that can fail is named by fail: the call's input says   *)
(* which one fails, "none" for none.                                        *)

\* the shipped template, as the pieces of its text, and the absolute path of
\* __shell_launch_script_path
Template == <<"[Service] ExecStart=", "<SHELL_SCRIPT_PATH>", " [Install]">>
ShellScriptAbsPath == "/telemonitor/extensions/systemd_service/files/telemonitor_start.sh"

\* replace that leaves the placeholder in the text
Replace_nothing(text) == text

\* text.replace('<SHELL_SCRIPT_PATH>', path.abspath(__shell_launch_script_path))
Replace(text) ==
    [i \in DOMAIN text |->
        IF text[i] = "<SHELL_SCRIPT_PATH>" THEN ShellScriptAbsPath ELSE text[i]]

\* __systemd_config_exists that never finds the unit file
__systemd_config_exists_never(st) == FALSE

\* __systemd_config_exists that takes an empty unit file for none
__systemd_config_exists_nonempty(st) == st.unit.exists /\ st.unit.text # <<>>

__systemd_config_exists(st) == st.unit.exists

\* __update_cfg_values whose mode 'install' assigns the version inside the
\* dict that cfg['systemd_service'] holds
__update_cfg_values_in_place(st, mode, in) ==
    With([got \in {get(st)} |->
    With([h \in {got.st.heap} |->
    With([cfg \in {h[CFG_ROOT]} |->
        IF got.exc # "none"
        THEN [st |-> got.st, ret |-> None, exc |-> got.exc]
        ELSE IF mode # "remove" /\ ~Has(cfg, "systemd_service")
        THEN [st |-> got.st, ret |-> None, exc |-> "KeyError"]
        ELSE IF mode # "remove" /\ Item(cfg, "systemd_service").kind # "dict"
        THEN [st |-> got.st, ret |-> None, exc |-> "TypeError"]
        ELSE
    With([changed \in {[got.st EXCEPT !.heap =
            IF mode = "remove"
            THEN Collect([h EXCEPT ![CFG_ROOT] =
                     SetItem(@, "systemd_service", Item(h[DEF_ROOT], "systemd_service"))])
            ELSE [h EXCEPT ![Item(cfg, "systemd_service").obj] =
                     SetItem(@, "version", IntV(__version))]]} |->
        IF in.fail = "cfg_write"
        THEN [st |-> changed, ret |-> None, exc |-> "OSError"]
        ELSE [st |-> write(changed, CFG_ROOT, in.later), ret |-> None,
              exc |-> "none"]])])])])

\* __update_cfg_values(mode): get(), change the cached document in place,
\* write it.  in = [fail, later]: fail = "cfg_write" makes the write fail.
__update_cfg_values(st, mode, in) ==
    IF mode \notin {"install", "upgrade", "remove"}
    THEN [st |-> st, ret |-> None, exc |-> "Exception"]
    ELSE
    With([got \in {get(st)} |->
    With([h \in {got.st.heap} |->
    With([cfg \in {h[CFG_ROOT]} |->
    With([fresh \in {<<"cfg", "systemd_service">>} |->
        IF got.exc # "none"
        THEN [st |-> got.st, ret |-> None, exc |-> got.exc]
        ELSE IF mode = "upgrade" /\ SubscriptExc(h, "systemd_service", Ref(CFG_ROOT)) # "none"
        THEN [st |-> got.st, ret |-> None, exc |-> "KeyError"]
        ELSE IF mode = "upgrade" /\ Item(cfg, "systemd_service").kind # "dict"
        THEN [st |-> got.st, ret |-> None, exc |-> "TypeError"]
        ELSE
    With([changed \in {[got.st EXCEPT !.heap =
            CASE mode = "install" ->
                   Collect((fresh :> << Entry("version", IntV(__version)) >>)
                           @@ [h EXCEPT ![CFG_ROOT] =
                                  SetItem(@, "systemd_service", Ref(fresh))])
              [] mode = "upgrade" ->
                   [h EXCEPT ![Item(cfg, "systemd_service").obj] =
                                 SetItem(@, "version", IntV(__version))]
              [] mode = "remove" ->
                   Collect([h EXCEPT ![CFG_ROOT] =
                               SetItem(@, "systemd_service",
                                       Item(h[DEF_ROOT], "systemd_service"))])]} |->
        IF in.fail = "cfg_write"
        THEN [st |-> changed, ret |-> None, exc |-> "OSError"]
        ELSE [st |-> write(changed, CFG_ROOT, in.later), ret |-> None,
              exc |-> "none"]])])])])])

\* service_install().  fail: "open_template", "open_final", "write" (of the
\* rendered text) or "cfg_write".  A failed open leaves its variable unbound,
\* and the finally clause then raises on it.
service_install(st, in) ==
    LET opened == [st EXCEPT !.unit = [exists |-> TRUE, text |-> <<>>]]
        written == [st EXCEPT !.unit = [exists |-> TRUE, text |-> Replace(Template)]]
    IN  IF __systemd_config_exists(st)
        THEN [st |-> st, ret |-> FALSE, exc |-> "none"]
        ELSE CASE in.fail = "open_template" ->
                    [st |-> st, ret |-> None, exc |-> "UnboundLocalError"]
               [] in.fail = "open_final" ->
                    [st |-> st, ret |-> None, exc |-> "UnboundLocalError"]
               [] in.fail = "write" ->
                    [st |-> opened, ret |-> FALSE, exc |-> "none"]
               [] OTHER ->
                    With([updated \in {__update_cfg_values(written, "install", in)} |->
                        IF updated.exc # "none"
                        THEN [st |-> updated.st, ret |-> None, exc |-> updated.exc]
                        ELSE [st |-> updated.st, ret |-> TRUE, exc |-> "none"]])

\* service_remove that deletes the unit file and leaves the record
service_remove_keeps_record(st, in) ==
    IF __systemd_config_exists(st) /\ in.fail # "remove"
    THEN [st |-> [st EXCEPT !.unit = NoUnit], ret |-> TRUE, exc |-> "none"]
    ELSE [st |-> st, ret |-> FALSE, exc |-> "none"]

\* service_remove that resets the record also when the deletion failed
service_remove_resets_on_failure(st, in) ==
    LET target == IF in.fail = "remove" THEN st ELSE [st EXCEPT !.unit = NoUnit]
    IN  IF __systemd_config_exists(st)
        THEN With([updated \in {__update_cfg_values(target, "remove", in)} |->
                 IF updated.exc # "none"
                 THEN [st |-> updated.st, ret |-> None, exc |-> updated.exc]
                 ELSE [st |-> updated.st, ret |-> in.fail # "remove", exc |-> "none"]])
        ELSE [st |-> st, ret |-> FALSE, exc |-> "none"]

\* service_remove().  fail: "remove" (of the unit file) or "cfg_write".
service_remove(st, in) ==
    LET deleted == [st EXCEPT !.unit = NoUnit]
    IN  IF __systemd_config_exists(st)
        THEN IF in.fail = "remove"
             THEN [st |-> st, ret |-> FALSE, exc |-> "none"]
             ELSE With([updated \in {__update_cfg_values(deleted, "remove", in)} |->
                      IF updated.exc # "none"
                      THEN [st |-> updated.st, ret |-> None, exc |-> updated.exc]
                      ELSE [st |-> updated.st, ret |-> TRUE, exc |-> "none"]])
        ELSE [st |-> st, ret |-> FALSE, exc |-> "none"]

\* the comparison with <= for <
can_be_upgraded_or_equal(installed_version, builtin_version) ==
    installed_version <= builtin_version

\* service_upgrade: installed_version < builtin_version
can_be_upgraded(installed_version, builtin_version) ==
    installed_version < builtin_version

\* service_upgrade().  in = [choice, remove, install, upgrade]: what the
\* operator types, and the inputs of the three calls it may make.  The
\* result also names the calls made, in order.
service_upgrade(st, in) ==
    LET Out(r, result, calls) ==
            [st |-> r.st, ret |-> IF r.exc = "none" THEN result ELSE None,
             exc |-> r.exc, calls |-> calls]
        c1 == << "service_remove" >>
        c2 == << "service_remove", "service_install" >>
        c3 == << "service_remove", "service_install", "__update_cfg_values" >>
    IN  IF ~__systemd_config_exists(st)
        THEN [st |-> st, ret |-> FALSE, exc |-> "none", calls |-> <<>>]
        ELSE
    With([got \in {get(st)} |->
        IF got.exc # "none"
        THEN Out(got, FALSE, <<>>)
        ELSE
    With([config \in {got.st.heap[CFG_ROOT]} |->
        IF ~(/\ Has(config, "systemd_service")
             /\ Item(config, "systemd_service").kind = "dict"
             /\ Has(got.st.heap[Item(config, "systemd_service").obj], "version"))
        THEN [st |-> got.st, ret |-> None, exc |-> "KeyError", calls |-> <<>>]
        ELSE
    With([installed_version \in {Item(got.st.heap[Item(config, "systemd_service").obj], "version").num} |->
        IF ~can_be_upgraded(installed_version, __version)
        THEN Out(got, FALSE, <<>>)
        ELSE IF in.choice = ""
        THEN [st |-> got.st, ret |-> None, exc |-> "IndexError", calls |-> <<>>]
        ELSE IF in.choice # "y"
        THEN Out(got, FALSE, <<>>)
        ELSE
    With([removed \in {service_remove(got.st, in.remove)} |->
        IF removed.exc # "none" \/ ~removed.ret
        THEN Out(removed, FALSE, c1)
        ELSE
    With([installed \in {service_install(removed.st, in.install)} |->
        IF installed.exc # "none" \/ ~installed.ret
        THEN Out(installed, FALSE, c2)
        ELSE Out(__update_cfg_values(installed.st, "upgrade", in.upgrade),
                 TRUE, c3)])])])])])

\* cli('status'): what it prints, [installed, version, path]; version and
\* path are None when the service is not installed
FinalPath == "/lib/systemd/system/telemonitor-bot.service"

service_status(st) ==
    With([got \in {get(st)} |->
        IF got.exc # "none"
        THEN [st |-> got.st, ret |-> None, exc |-> got.exc]
        ELSE
    With([cfg \in {got.st.heap[CFG_ROOT]} |->
    With([service_exists \in {__systemd_config_exists(got.st)} |->
        IF ~Has(cfg, "systemd_service")
        THEN [st |-> got.st, ret |-> None, exc |-> "KeyError"]
        ELSE
    With([cfg_service \in {Item(cfg, "systemd_service")} |->
        IF ~service_exists
        THEN [st |-> got.st, exc |-> "none",
              ret |-> [installed |-> FALSE, version |-> None, path |-> None]]
        ELSE IF cfg_service.kind # "dict"
        THEN [st |-> got.st, ret |-> None, exc |-> "TypeError"]
        ELSE IF ~Has(got.st.heap[cfg_service.obj], "version")
        THEN [st |-> got.st, ret |-> None, exc |-> "KeyError"]
        ELSE [st |-> got.st, exc |-> "none",
              ret |-> [installed |-> TRUE,
                       version |-> Item(got.st.heap[cfg_service.obj], "version").num,
                       path |-> FinalPath]]])])])])

\* cli(mode) on the platform plat: [st, exc, report].  report is what the
\* call prints about: the mode it handled, or "unsupported".  in is the
\* input of the service call of that mode.  exit() follows in every case.
cli(st, mode, plat, in) ==
    IF plat = "linux"
    THEN IF mode \in {"install", "upgrade", "remove", "status"}
         THEN With([r \in {CASE mode = "install" -> service_install(st, in)
                    [] mode = "upgrade" -> service_upgrade(st, in)
                    [] mode = "remove" -> service_remove(st, in)
                    [] mode = "status" -> service_status(st)} |-> [st |-> r.st, exc |-> r.exc, report |-> mode]])
         ELSE [st |-> st, exc |-> "none", report |-> "none"]
    ELSE [st |-> st, exc |-> "none", report |-> "unsupported"]

\* run() of telemonitor.main with the command line a that names a service
\* mode, up to the exit() that ends cli: [st, at, exc, report].
run(st, a, plat, later1, later2, in) ==
    With([init \in {tm_config_init(st, a, later1, later2)} |->
        IF init.at = "exited"
        THEN [st |-> init.st, at |-> "exited", exc |-> "none", report |-> "first_start"]
        ELSE IF init.at = "raised"
        THEN [st |-> init.st, at |-> "raised", exc |-> init.exc, report |-> "none"]
        ELSE
    With([cfg \in {get(init.st)} |->
        IF cfg.exc # "none"
        THEN [st |-> cfg.st, at |-> "raised", exc |-> cfg.exc, report |-> "none"]
        ELSE IF a.config_check_only
        THEN [st |-> cfg.st, at |-> "exited", exc |-> "none", report |-> "none"]
        ELSE
    With([called \in {cli(cfg.st, a.systemd_service, plat, in)} |->
        [st |-> called.st,
         at |-> IF called.exc = "none" THEN "exited" ELSE "raised",
         exc |-> called.exc, report |-> called.report]])])])

-----------------------------------------------------------------------------
(* The user documents config_check is run on.  A document is put together  *)
(* from optional parts, in file order: the keys of a version 1 file, a     *)
(* deprecated scalar, the keys of DEF_CFG with the user's own values, a     *)
(* deprecated sub-document, a deprecated list.  A DEF_CFG key that is     *)
(* present holds a value of the default's shape, but for one case:         *)
(* systemd_service holding a str in place of a sub-document.               *)

\* a whitelist whose order can be told from its reverse
Whitelist == [i \in 1..WhitelistLen |-> WhitelistLen + 1 - i]
LegacyWhitelist == [i \in 1..WhitelistLen |-> i]

Opt(e) == {<<>>, <<e>>}

BotDocs ==
    { t \o w \o f \o x :
        t \in Opt(Entry("token", StrV("abc"))),
        w \in Opt(Entry("whitelisted_users", ListV(Whitelist))),
        f \in {<<>>, << Entry("state_notifications", BoolV(FALSE)),
                        Entry("enable_file_transfer", BoolV(FALSE)) >>},
        x \in Opt(Entry("old_bot_key", StrV("x"))) }

ServiceDocs == { <<>>, << Entry("version", IntV(-1)) >>, << Entry("version", IntV(0)) >> }

UserDocs ==
    { a \o w \o f \o d1 \o cv \o lfm \o b \o os \o sd \o d2 :
        a \in Opt(Entry("api_key", StrV("legacy"))),
        w \in Opt(Entry("whitelisted_users", ListV(LegacyWhitelist))),
        f \in {<<>>, << Entry("state_notifications", BoolV(FALSE)),
                        Entry("enable_file_transfer", BoolV(FALSE)) >>},
        d1 \in Opt(Entry("old_key", StrV("x"))),
        cv \in Opt(Entry("config_version", IntV(2))),
        lfm \in Opt(Entry("log_files_max", IntV(10))),
        b \in {<<>>} \cup {<< Entry("bot", Doc(bd)) >> : bd \in BotDocs},
        os \in Opt(Entry("old_section", Doc(<< Entry("a", IntV(1)) >>))),
        sd \in {<<>>, << Entry("systemd_service", StrV("version")) >>}
                  \cup {<< Entry("systemd_service", Doc(s)) >> : s \in ServiceDocs},
        d2 \in Opt(Entry("old_list", ListV(<<3>>))) }

\* the document create() writes: DEF_CFG itself
DefaultDoc == Dump(DEF_CFG, DEF_ROOT)


-----------------------------------------------------------------------------
(* SpecCheck: config_check called once on each user document *)

InitCheck ==
    /\ \E doc \in UserDocs \cup {DefaultDoc} :
          /\ heap = DEF_CFG @@ Load(doc, CFG_ROOT)
          /\ config0 = doc
    /\ config_file = NoFile
    /\ __last_mod_time = None
    /\ unit_file = NoUnit
    /\ pc = "config_check"
    /\ ret = <<>>
    /\ exc = "none"
    /\ did_read = FALSE
    /\ args = NoArgs
    /\ log = <<>>
    /\ platform = "linux"

ConfigCheck ==
    /\ pc = "config_check"
    /\ LET r == config_check(heap)
       IN  /\ heap' = r.h
           /\ ret' = r.ret
           /\ exc' = r.exc
           /\ log' = r.log
           /\ pc' = IF r.exc = "none" THEN "returned" ELSE "raised"
    /\ UNCHANGED <<config_file, __last_mod_time, unit_file, config0, did_read, args, platform>>

NextCheck == ConfigCheck

SpecCheck == InitCheck /\ [][NextCheck]_vars

-----------------------------------------------------------------------------
(* Reading documents by key path *)

RECURSIVE HasPath(_, _)
HasPath(t, p) ==
    IF p = <<>> THEN TRUE
    ELSE /\ Has(t, Head(p))
         /\ \/ Len(p) = 1
            \/ /\ Item(t, Head(p)).kind = "dict"
               /\ HasPath(Item(t, Head(p)).dict, Tail(p))

RECURSIVE At(_, _)
At(t, p) ==
    IF Len(p) = 1 THEN Item(t, Head(p))
    ELSE At(Item(t, Head(p)).dict, Tail(p))

\* every key path of a document, at every depth
RECURSIVE Paths(_)
Paths(t) ==
    UNION { {<<t[i].k>>} \cup
            (IF t[i].v.kind = "dict"
             THEN {<<t[i].k>> \o q : q \in Paths(t[i].v.dict)}
             ELSE {}) : i \in DOMAIN t }

DefPaths == Paths(DefaultDoc)
\* the user document as it is now
UserDoc == Dump(heap, CFG_ROOT)
\* the keys of a version 1 file that the migration reads, by the bot key
\* they become
LegacyKey(k) == IF k = "token" THEN "api_key" ELSE k
BotKeys == {"token", "whitelisted_users", "state_notifications", "enable_file_transfer"}
HadMarker == Has(config0, "config_version")

\* the values at the keys of DEF_CFG's sub-documents are sub-documents
WellShaped(doc) ==
    \A k \in {"bot", "systemd_service"} : Has(doc, k) => Item(doc, k).kind = "dict"
\* the document as each phase of config_check left it
AfterMigration == log[1].doc
AfterRemove == log[2].doc

-----------------------------------------------------------------------------
(* Properties of config_check, under SpecCheck *)

C2_NoValueLost ==
    pc = "returned" =>
        \A p \in DefPaths :
            (HasPath(config0, p) /\ At(config0, p).kind # "dict")
                => (HasPath(UserDoc, p) /\ At(UserDoc, p) = At(config0, p))

\* C3: on a document that has a key absent from the corresponding
\* DefaultSchema subtree (and has config_version, so that no migration takes
\* part), config_check completes, that key is gone, and every value at a
\* DefaultSchema key path is what it was.
C3_ExtraKeyRemoved ==
    (pc # "config_check" /\ HadMarker /\ \E p \in Paths(config0) : p \notin DefPaths) =>
        /\ pc = "returned"
        /\ \A p \in Paths(UserDoc) : p \in DefPaths
        /\ \A p \in DefPaths :
              (HasPath(config0, p) /\ At(config0, p).kind # "dict")
                  => (HasPath(UserDoc, p) /\ At(UserDoc, p) = At(config0, p))

\* C4: on a document that holds sub-documents at bot and systemd_service, the
\* first element of the result is False (a key was added) exactly when the
\* add phase added a DefaultSchema key that was missing.
C4_AddedReported ==
    (pc = "returned" /\ WellShaped(config0)) =>
        (ret[1] = FALSE <=> \E p \in DefPaths : ~HasPath(AfterRemove, p))

\* C5: the second element of the result is True whenever the remove phase
\* removed a key, at any depth.
C5_RemovedReported ==
    pc = "returned" =>
        ((\E p \in Paths(AfterMigration) : ~HasPath(AfterRemove, p)) => ret[2] = TRUE)

\* C7: the migration is the first step of config_check.  For a document
\* without config_version it leaves the legacy top-level values in bot (the
\* defaults where a legacy key was missing), and whenever config_check
\* returns, the result's third element is True, bot still holds those values,
\* the legacy root keys are gone and config_version is present.  For a
\* document with config_version the migration step changes nothing and the
\* third element is False.
C7_Migration ==
    pc # "config_check" =>
        /\ log[1].call = "special_update_check"
        /\ IF ~HadMarker
           THEN /\ \A k \in BotKeys :
                      At(AfterMigration, <<"bot", k>>)
                          = GetOr(config0, LegacyKey(k), At(DefaultDoc, <<"bot", k>>))
                /\ pc = "returned" =>
                      /\ ret[3] = TRUE
                      /\ Item(UserDoc, "bot") = Item(AfterMigration, "bot")
                      /\ Keys(Item(UserDoc, "bot").dict) = BotKeys
                      /\ \A k \in BotKeys : ~Has(UserDoc, LegacyKey(k))
                      /\ Has(UserDoc, "config_version")
           ELSE /\ AfterMigration = config0
                /\ pc = "returned" => ret[3] = FALSE

\* C7 witness: config_check returned on a version 1 file that had the token
\* and the whitelist at the top level and no boolean flags.
C7_Witness ==
    /\ pc = "returned"
    /\ ~HadMarker
    /\ Has(config0, "api_key")
    /\ Has(config0, "whitelisted_users")
    /\ ~Has(config0, "state_notifications")
    /\ ret[3] = TRUE
    /\ At(UserDoc, <<"bot", "whitelisted_users">>) = ListV(LegacyWhitelist)

\* C8: config_check on a document deep-equal to DefaultSchema returns
\* (True, False, False) and leaves the document as it was.
C8_DefaultRoundTrip ==
    (pc = "returned" /\ config0 = DefaultDoc) =>
        /\ ret = <<TRUE, FALSE, FALSE>>
        /\ UserDoc = config0

\* C8 witness: config_check returned on the default document.
C8_Witness == pc = "returned" /\ config0 = DefaultDoc /\ ret[1] = TRUE

\* C21 as stated: within config_check the migration runs first, then the add
\* phase to completion, then the remove phase; when the second step is over
\* every DefaultSchema key is present, and the third step adds nothing.
C21_AsStated ==
    pc = "returned" =>
        /\ log[1].call = "special_update_check"
        /\ log[2].call = "add_new_keys"
        /\ log[3].call = "remove_deprecated"
        /\ \A p \in DefPaths : HasPath(log[2].doc, p)
        /\ Paths(log[3].doc) \subseteq Paths(log[2].doc)

\* C21 amended: within config_check the steps run in the order migration,
\* then the remove phase to completion, then the add phase.  The remove phase
\* adds no key, the add phase runs only after the remove phase returned and
\* removes no key, and config_check returns only after all three.
C21_Order ==
    pc # "config_check" =>
        /\ log[1].call = "special_update_check"
        /\ log[2].call = "remove_deprecated"
        /\ Paths(AfterRemove) \subseteq Paths(AfterMigration)
        /\ Len(log) = 2 => pc = "raised"
        /\ Len(log) = 3 =>
              /\ log[3].call = "add_new_keys"
              /\ Paths(AfterRemove) \subseteq Paths(log[3].doc)

\* C21 witness: config_check returned after its second step removed a key
\* while a DefaultSchema key was still missing, which the third step added.
C21_Witness ==
    /\ pc = "returned"
    /\ \E p \in Paths(AfterMigration) : ~HasPath(AfterRemove, p)
    /\ \E q \in DefPaths : ~HasPath(AfterRemove, q) /\ HasPath(log[3].doc, q)

-----------------------------------------------------------------------------
(* SpecRecheck: config_check called on each user document, and once more on *)
(* the document the first call left, where the first call returned          *)

\* the second config_check(config), on the same object
ConfigCheckAgain ==
    /\ pc = "returned"
    /\ LET r == config_check(heap)
       IN  /\ heap' = r.h
           /\ ret' = r.ret
           /\ exc' = r.exc
           /\ log' = << [call |-> "config_check", doc |-> UserDoc, ret |-> ret] >>
                      \o r.log
           /\ pc' = IF r.exc = "none" THEN "returned_again" ELSE "raised_again"
    /\ UNCHANGED <<config_file, __last_mod_time, unit_file, config0, did_read, args, platform>>

NextRecheck == ConfigCheck \/ ConfigCheckAgain

SpecRecheck == InitCheck /\ [][NextRecheck]_vars

\* the document the first config_check left, and what it returned
FirstResult == log[1]

\* C24: config_check is idempotent: on every document on which a first
\* config_check returned, a second config_check returns (True, False, False)
\* and leaves the document as the first one left it; the migration does not
\* run a second time.
C24_Idempotent ==
    pc \in {"returned_again", "raised_again"} =>
        /\ pc = "returned_again"
        /\ ret = <<TRUE, FALSE, FALSE>>
        /\ UserDoc = FirstResult.doc
        /\ \A i \in 2..Len(log) : log[i].doc = FirstResult.doc

\* C24 witness: the second config_check has returned on a document that the
\* first one migrated, removed a key from and added a key to.
C24_Witness ==
    /\ pc = "returned_again"
    /\ ~HadMarker
    /\ FirstResult.ret[3] = TRUE
    /\ \E p \in Paths(config0) : ~HasPath(FirstResult.doc, p)
    /\ FirstResult.ret[1] = FALSE
    /\ ret = <<TRUE, FALSE, FALSE>>

-----------------------------------------------------------------------------
(* SpecInit: one start of the process, TM_Config() and then get(), on every *)
(* backing file of InitDocs or none                                         *)

St == [heap |-> heap, file |-> config_file, last |-> __last_mod_time, unit |-> unit_file]

\* the class attributes of TM_Config as the module sets them
FreshHeap == DEF_CFG @@ (CFG_ROOT :> <<>>)

\* the documents of UserDocs with sub-documents at bot and systemd_service,
\* no key of a version 1 file and no deprecated key other than old_key and
\* old_list
InitDocs ==
    {d \in UserDocs :
        /\ WellShaped(d)
        /\ Keys(d) \cap {"old_section", "api_key", "state_notifications",
                         "whitelisted_users"} = {}
        /\ Has(d, "bot") => ~Has(Item(d, "bot").dict, "old_bot_key")}
    \cup {DefaultDoc}

InitInit ==
    /\ heap = FreshHeap
    /\ __last_mod_time = None
    /\ \/ /\ config_file = NoFile
          /\ args \in [disable_config_check : BOOLEAN, overwrite : BOOLEAN]
          /\ config0 = <<>>
       \/ /\ \E doc \in InitDocs :
                /\ config_file = [exists |-> TRUE, content |-> doc,
                                  mtime |-> MaxTime - 1]
                /\ config0 = doc
          /\ args \in [disable_config_check : BOOLEAN, overwrite : {FALSE}]
    /\ unit_file = NoUnit
    /\ pc = "start"
    /\ ret = <<>>
    /\ exc = "none"
    /\ did_read = FALSE
    /\ log = <<>>
    /\ platform = "linux"

\* h.TM_Config()
TMConfigInit ==
    /\ pc = "start"
    /\ \E later1 \in (IF is_exist(config_file) THEN {FALSE} ELSE BOOLEAN) :
       \E later2 \in BOOLEAN :
          /\ LET r == tm_config_init(St, args, later1, later2)
             IN  /\ heap' = r.st.heap
                 /\ config_file' = r.st.file
                 /\ __last_mod_time' = r.st.last
                 /\ pc' = r.at
                 /\ exc' = r.exc
                 /\ log' = r.log
    /\ UNCHANGED <<unit_file, config0, ret, did_read, args, platform>>

\* the positions of a process between two calls
Live == {"idle", "initialized", "got", "called", "checked", "written"}

\* TM_Config.get(), by any caller
Get ==
    /\ pc \in Live
    /\ LET r == get(St)
       IN  /\ heap' = r.st.heap
           /\ __last_mod_time' = r.st.last
           /\ did_read' = r.read
           /\ exc' = r.exc
           /\ ret' = Dump(r.st.heap, CFG_ROOT)
           /\ pc' = "got"
    /\ log' = << [call |-> "get", last |-> __last_mod_time, cached |-> UserDoc] >>
    /\ UNCHANGED <<config_file, unit_file, config0, args, platform>>

NextInit == TMConfigInit \/ Get

SpecInit == InitInit /\ [][NextInit]_vars

\* C6: after TM_Config() on an existing file, without --no-config-check, the
\* document on disk equals the reconciled document, which the following
\* get() returns.
C6_PersistedIfChanged ==
    (args.disable_config_check = FALSE /\ config0 # <<>>) =>
        /\ pc = "initialized" => config_file.content = UserDoc
        /\ pc = "got" => config_file.content = ret

-----------------------------------------------------------------------------
(* SpecStore: get() calls and modifications of the backing file from        *)
(* outside the process, in any order                                        *)

\* a complete document with the given token and service version
StoreDoc(token, version) ==
    << Entry("config_version", IntV(2)),
       Entry("log_files_max", IntV(MAX_LOGS)),
       Entry("bot", Doc(<< Entry("token", StrV(token)),
                           Entry("whitelisted_users", ListV(Whitelist)),
                           Entry("state_notifications", BoolV(TRUE)),
                           Entry("enable_file_transfer", BoolV(TRUE)) >>)),
       Entry("systemd_service", Doc(<< Entry("version", IntV(version)) >>)) >>

StoreDocs == {StoreDoc(t, v) : t \in {"", "abc"}, v \in {-1, __version}}

InitStore ==
    /\ heap = FreshHeap
    /\ __last_mod_time = None
    /\ \E doc \in StoreDocs : \E t \in 0..MaxTime :
          config_file = [exists |-> TRUE, content |-> doc, mtime |-> t]
    /\ unit_file = NoUnit
    /\ pc = "idle"
    /\ config0 = <<>>
    /\ ret = <<>>
    /\ exc = "none"
    /\ did_read = FALSE
    /\ args = NoArgs
    /\ log = <<>>
    /\ platform = "linux"

\* another program rewrites or touches the file; the time it leaves on the
\* file is any time (a restored copy keeps an old one)
ExternalModify ==
    /\ pc \in {"idle", "got"}
    /\ \E doc \in StoreDocs : \E t \in 0..MaxTime :
          /\ <<doc, t>> # <<config_file.content, config_file.mtime>>
          /\ config_file' = [exists |-> TRUE, content |-> doc, mtime |-> t]
    /\ pc' = "idle"
    /\ log' = << [call |-> "external"] >>
    /\ UNCHANGED <<heap, __last_mod_time, unit_file, config0, ret, exc, did_read, args, platform>>

NextStore == Get \/ ExternalModify

SpecStore == InitStore /\ [][NextStore]_vars

\* C9: a get() made when the file's modification time is not greater than
\* the recorded time returns the cached snapshot without reading the file; a
\* get() made when it is greater, and the first get() of the process, reads
\* the file, makes its content the snapshot and records its time.
C9_CacheStaleness ==
    pc = "got" =>
        LET before == log[1]
        IN  IF before.last = None \/ config_file.mtime > before.last
            THEN /\ did_read
                 /\ UserDoc = config_file.content
                 /\ ret = config_file.content
                 /\ __last_mod_time = config_file.mtime
            ELSE /\ ~did_read
                 /\ UserDoc = before.cached
                 /\ ret = before.cached
                 /\ __last_mod_time = before.last

\* C9 witness: a get() after an earlier load found the file newer, read it and
\* replaced a snapshot that differed.
C9_Witness ==
    /\ pc = "got"
    /\ log[1].last # None
    /\ config_file.mtime > log[1].last
    /\ did_read
    /\ log[1].cached # UserDoc
    /\ UserDoc = config_file.content

-----------------------------------------------------------------------------
(* SpecWrite: get() and write(config_dict) calls in any order.  The dict    *)
(* passed to write is the cached object, DEF_CFG (as create() passes it),   *)
(* or a dict the caller built.                                              *)

\* the object id of a dict the caller built
ARG_ROOT == <<"arg">>

\* the dicts a caller passes to write: [obj, tree], tree the content of a
\* dict built by the caller
WriteArgs ==
    {[obj |-> id, tree |-> <<>>] : id \in {CFG_ROOT, DEF_ROOT}}
    \cup {[obj |-> ARG_ROOT, tree |-> doc] : doc \in StoreDocs}

\* TM_Config.write(config_dict), by any caller; the caller's own dict is
\* gone when the call is over
Write ==
    /\ pc \in Live
    /\ \E arg \in WriteArgs : \E later \in BOOLEAN :
          LET built == IF arg.obj = ARG_ROOT
                       THEN [St EXCEPT !.heap = Load(arg.tree, ARG_ROOT) @@ @]
                       ELSE St
              r == write(built, arg.obj, later)
          IN  /\ heap' = Collect(r.heap)
              /\ config_file' = r.file
              /\ log' = << [call |-> "write",
                            doc |-> Dump(built.heap, arg.obj),
                            is_cached |-> arg.obj = CFG_ROOT,
                            last |-> __last_mod_time,
                            time |-> r.file.mtime] >>
    /\ pc' = "written"
    /\ ret' = None
    /\ exc' = "none"
    /\ UNCHANGED <<__last_mod_time, unit_file, config0, did_read, args, platform>>

NextWrite == Get \/ Write

SpecWrite == InitStore /\ [][NextWrite]_vars

\* C22: after a successful write(doc), for any document doc, whether or not
\* it is the cached object, the next get() returns a document deep-equal to
\* doc, also when the write lands on the modification time recorded at the
\* previous load.
C22_WriteThenGet ==
    [][(pc = "written" /\ pc' = "got") => ret' = log[1].doc]_vars

-----------------------------------------------------------------------------
(* SpecRace: get() taken statement by statement, with another program       *)
(* rewriting the backing file, its modification time advancing, between any *)
(* two of them                                                              *)

\* get(): `if cls.is_modified():`; when False, `return cls.__config`
GetIsModified ==
    /\ pc \in {"idle", "got"}
    /\ IF is_modified(__last_mod_time, config_file)
       THEN /\ pc' = "opening"
            /\ UNCHANGED <<ret, did_read>>
       ELSE /\ pc' = "got"
            /\ ret' = UserDoc
            /\ did_read' = FALSE
    /\ exc' = "none"
    /\ log' = << [call |-> "get"] >>
    /\ UNCHANGED <<heap, config_file, __last_mod_time, unit_file, config0, args, platform>>

\* get(): `cls.__config = json.load(f)`
GetLoad ==
    /\ pc = "opening"
    /\ heap' = Rebind(heap, config_file.content)
    /\ pc' = "loaded"
    /\ UNCHANGED <<config_file, __last_mod_time, unit_file, config0, ret, exc,
                   did_read, args, log, platform>>

\* get(): `cls.__last_mod_time = os.path.getmtime(PATH_CFG)` and
\* `return cls.__config`
GetRecordTime ==
    /\ pc = "loaded"
    /\ __last_mod_time' = config_file.mtime
    /\ ret' = UserDoc
    /\ did_read' = TRUE
    /\ pc' = "got"
    /\ UNCHANGED <<heap, config_file, unit_file, config0, exc, args, log, platform>>

\* another program rewrites the file with other content at a later time,
\* wherever get() stands
ExternalAdvance ==
    /\ config_file.mtime < MaxTime
    /\ \E doc \in StoreDocs \ {config_file.content} :
          config_file' = [exists |-> TRUE, content |-> doc,
                          mtime |-> config_file.mtime + 1]
    /\ log' = << [call |-> "external"] >>
    /\ UNCHANGED <<heap, __last_mod_time, unit_file, pc, config0, ret, exc,
                   did_read, args, platform>>

NextRace == GetIsModified \/ GetLoad \/ GetRecordTime \/ ExternalAdvance

SpecRace == InitStore /\ [][NextRace]_vars

\* C25: every modification of the backing file from outside that advances
\* its modification time becomes visible, also one made between a get()'s
\* read of the file and its recording of the modification time: a get() that
\* began after the last modification returns the file's content, or the
\* file still counts as modified, so that the next get() reads it.
C25_ModificationVisible ==
    (pc = "got" /\ log[1].call = "get") =>
        \/ ret = config_file.content
        \/ is_modified(__last_mod_time, config_file)

-----------------------------------------------------------------------------
(* SpecService: service_install, service_upgrade and service_remove in any  *)
(* order, each with any one of its file operations failing or none, from    *)
(* the state of a first installation: no unit file, version -1.  Every      *)
(* command line run is a process of its own, so the process may end and a   *)
(* new one start between two calls.                                         *)

Later == BOOLEAN
\* the inputs of a call: the file operation that fails ("none" for none) and
\* whether the clock advanced before the write of the backing file.  No
\* failing call reaches that write, so later is FALSE there.
Inputs(fails) ==
    [fail : {"none"}, later : Later] \cup [fail : fails, later : {FALSE}]
InstallInputs == Inputs({"open_template", "open_final", "write", "cfg_write"})
RemoveInputs == Inputs({"remove", "cfg_write"})
UpdateInputs == Inputs({"cfg_write"})
\* service_upgrade's inputs: the input of a call it does not reach is of no
\* effect and is left at NoInput.  The same holds of a call that finds
\* nothing to do: the actions give it NoInput.
NoInput == [fail |-> "none", later |-> FALSE]
Failing(inputs) == {in \in inputs : in.fail # "none"}
Succeeding(inputs) == {in \in inputs : in.fail = "none"}
UpgradeInputs ==
    [choice : {"n", ""}, remove : {NoInput}, install : {NoInput}, upgrade : {NoInput}]
    \cup [choice : {"y"}, remove : Failing(RemoveInputs),
          install : {NoInput}, upgrade : {NoInput}]
    \cup [choice : {"y"}, remove : Succeeding(RemoveInputs),
          install : Failing(InstallInputs), upgrade : {NoInput}]
    \cup [choice : {"y"}, remove : Succeeding(RemoveInputs),
          install : Succeeding(InstallInputs), upgrade : UpdateInputs]

NoUpgradeInput ==
    [choice |-> "n", remove |-> NoInput, install |-> NoInput, upgrade |-> NoInput]

\* the file operation made to fail in a call of service_upgrade, if any
UpgradeFail(in) ==
    IF in.remove.fail # "none" THEN in.remove.fail
    ELSE IF in.install.fail # "none" THEN in.install.fail
    ELSE in.upgrade.fail

InitService ==
    /\ heap = DEF_CFG @@ Load(DefaultDoc, CFG_ROOT)
    /\ config_file = [exists |-> TRUE, content |-> DefaultDoc, mtime |-> 0]
    /\ __last_mod_time = 0
    /\ unit_file = NoUnit
    /\ pc = "idle"
    /\ config0 = <<>>
    /\ ret = <<>>
    /\ exc = "none"
    /\ did_read = FALSE
    /\ args = NoArgs
    /\ log = <<>>
    /\ platform = "linux"

\* the document a get() would return now
Seen ==
    IF is_modified(__last_mod_time, config_file) THEN config_file.content ELSE UserDoc

\* the call before this one and whether it succeeded (returned True)
Previous ==
    IF log = <<>>
    THEN [call |-> "none", ok |-> FALSE]
    ELSE [call |-> log[1].call,
          ok |-> /\ log[1].call \in {"service_install", "service_remove",
                                      "service_upgrade"}
                 /\ exc = "none"
                 /\ ret = TRUE]

\* the state a call leaves.  log keeps the file operation made to fail, the
\* operator's answer, the calls made, and what the unit file, the backing
\* file and the cached document were before the call.
\* A call that raised returned nothing: ret is FALSE then, and exc names the
\* exception.  status is what cli('status') printed, None for no report.
Called(name, fail, choice, r, calls, status) ==
    /\ heap' = r.st.heap
    /\ config_file' = r.st.file
    /\ __last_mod_time' = r.st.last
    /\ unit_file' = r.st.unit
    /\ ret' = IF r.exc = "none" THEN r.ret ELSE FALSE
    /\ exc' = r.exc
    /\ pc' = "called"
    /\ log' = << [call |-> name, fail |-> fail, choice |-> choice,
                  calls |-> calls, prev |-> Previous,
                  unit |-> unit_file, file |-> config_file,
                  cached |-> UserDoc, seen |-> Seen, status |-> status] >>
    /\ UNCHANGED <<config0, did_read, args, platform>>

ServiceInstall ==
    /\ pc \in Live
    /\ \E in \in (IF __systemd_config_exists(St) THEN {NoInput} ELSE InstallInputs) :
          Called("service_install", in.fail, "", service_install(St, in),
                 << "service_install" >>, None)

ServiceRemove ==
    /\ pc \in Live
    /\ \E in \in (IF __systemd_config_exists(St) THEN RemoveInputs ELSE {NoInput}) :
          Called("service_remove", in.fail, "", service_remove(St, in),
                 << "service_remove" >>, None)

ServiceUpgrade ==
    /\ pc \in Live
    /\ \E in \in (IF __systemd_config_exists(St) THEN UpgradeInputs ELSE {NoUpgradeInput}) :
          LET r == service_upgrade(St, in)
          IN  Called("service_upgrade", UpgradeFail(in), in.choice, r, r.calls, None)

\* cli('status') prints its report and returns nothing
ServiceStatus ==
    /\ pc \in Live
    /\ LET r == service_status(St)
       IN  Called("service_status", "none", "", [r EXCEPT !.ret = FALSE], <<>>, r.ret)

\* the process ends; the next command line starts one: TM_Config().get()
Restart ==
    /\ pc = "called"
    /\ LET fresh == [St EXCEPT !.heap = FreshHeap, !.last = None]
           r == tm_config_init(fresh, NoArgs, FALSE, FALSE)
           g == get(r.st)
       IN  /\ r.at = "initialized"
           /\ heap' = g.st.heap
           /\ config_file' = g.st.file
           /\ __last_mod_time' = g.st.last
    /\ pc' = "idle"
    /\ UNCHANGED <<unit_file, config0, ret, exc, did_read, args, log, platform>>

NextService ==
    ServiceInstall \/ ServiceRemove \/ ServiceUpgrade \/ ServiceStatus \/ Restart

SpecService == InitService /\ [][NextService]_vars

\* ServiceRecord.version as persisted in the backing file
PersistedVersion == At(config_file.content, <<"systemd_service", "version">>).num

\* C10: in every state reached by install, upgrade and remove calls with
\* failing file operations, the unit file exists if and only if
\* ServiceRecord.version is the built-in version.
C10_Lockstep ==
    unit_file.exists <=> PersistedVersion = __version

-----------------------------------------------------------------------------
(* SpecRun: one run of the program with a service mode on the command line, *)
(* on linux or on another platform, from no backing file or one of RunDocs, *)
(* with the service installed or not                                        *)

\* a complete document without the systemd_service section
NoServiceDoc == SubSeq(StoreDoc("abc", -1), 1, 3)

\* the default document, a document that needs reconciliation, and the
\* documents of an installed service of an older and of the built-in version
RunDocs == {DefaultDoc, NoServiceDoc, StoreDoc("abc", 0), StoreDoc("abc", __version)}

Modes == {"install", "upgrade", "remove", "status"}

\* the inputs of the service call cli makes
CliInputs(mode, plat) ==
    IF plat # "linux" THEN {NoInput}
    ELSE CASE mode = "install" -> InstallInputs
           [] mode = "upgrade" -> UpgradeInputs
           [] mode = "remove" -> RemoveInputs
           [] mode = "status" -> {NoInput}

InitRun ==
    /\ heap = FreshHeap
    /\ __last_mod_time = None
    /\ \/ config_file = NoFile
       \/ \E doc \in RunDocs :
             config_file = [exists |-> TRUE, content |-> doc, mtime |-> MaxTime - 1]
    /\ args \in [disable_config_check : BOOLEAN, overwrite : BOOLEAN,
                 config_check_only : BOOLEAN, systemd_service : Modes]
    /\ is_exist(config_file) => ~args.overwrite
    /\ unit_file \in {NoUnit, [exists |-> TRUE, text |-> Replace(Template)]}
    /\ platform \in {"linux", "win32"}
    /\ pc = "start"
    /\ config0 = config_file.content
    /\ ret = <<>>
    /\ exc = "none"
    /\ did_read = FALSE
    /\ log = <<>>

Run ==
    /\ pc = "start"
    /\ \E later1 \in (IF is_exist(config_file) THEN {FALSE} ELSE BOOLEAN) :
       \E later2 \in BOOLEAN :
       \E in \in CliInputs(args.systemd_service, platform) :
          LET r == run(St, args, platform, later1, later2, in)
          IN  /\ heap' = r.st.heap
              /\ config_file' = r.st.file
              /\ __last_mod_time' = r.st.last
              /\ unit_file' = r.st.unit
              /\ pc' = r.at
              /\ exc' = r.exc
              /\ log' = << [call |-> "run", report |-> r.report,
                            unit |-> unit_file, file |-> config_file] >>
    /\ UNCHANGED <<config0, ret, did_read, args, platform>>

NextRun == Run

SpecRun == InitRun /\ [][NextRun]_vars

\* C19: a run that asks for a service mode (without --config-check-only) on
\* a platform other than linux reports the unsupported platform and ends
\* with the backing file and the unit file as they were at its start.
C19_NoWriteOffPlatform ==
    (pc \in {"exited", "raised"} /\ platform # "linux" /\ ~args.config_check_only) =>
        /\ log[1].report = "unsupported"
        /\ config_file = log[1].file
        /\ unit_file = log[1].unit

-----------------------------------------------------------------------------
(* SpecProcess: one process from its start: TM_Config(), and then get(),    *)
(* config_check on the cached document, write of the cached document and    *)
(* the service calls in any order                                           *)

\* a complete document without the bot section
NoBotDoc == SubSeq(DefaultDoc, 1, 2) \o SubSeq(DefaultDoc, 4, 4)

\* a version 1 file
LegacyDoc == << Entry("api_key", StrV("legacy")),
                Entry("whitelisted_users", ListV(LegacyWhitelist)) >>

ProcessDocs == {DefaultDoc, NoServiceDoc, NoBotDoc, LegacyDoc, StoreDoc("abc", 0)}

InitProcess ==
    /\ heap = FreshHeap
    /\ __last_mod_time = None
    /\ \/ config_file = NoFile
       \/ \E doc \in ProcessDocs :
             config_file = [exists |-> TRUE, content |-> doc, mtime |-> MaxTime - 1]
    /\ args \in [disable_config_check : BOOLEAN, overwrite : {TRUE}]
    /\ unit_file \in {NoUnit, [exists |-> TRUE, text |-> Replace(Template)]}
    /\ pc = "start"
    /\ config0 = config_file.content
    /\ ret = <<>>
    /\ exc = "none"
    /\ did_read = FALSE
    /\ log = <<>>
    /\ platform = "linux"

\* TM_Config.config_check(cfg) on the cached document
ConfigCheckCached ==
    /\ pc \in Live
    /\ LET r == config_check(heap)
       IN  /\ heap' = r.h
           /\ ret' = r.ret
           /\ exc' = r.exc
           /\ log' = r.log
           /\ pc' = IF r.exc = "none" THEN "checked" ELSE "raised"
    /\ UNCHANGED <<config_file, __last_mod_time, unit_file, config0, did_read, args,
                   platform>>

\* TM_Config.write(cfg) of the cached document
WriteCached ==
    /\ pc \in Live
    /\ \E later \in BOOLEAN : config_file' = write(St, CFG_ROOT, later).file
    /\ pc' = "written"
    /\ log' = << [call |-> "write"] >>
    /\ UNCHANGED <<heap, __last_mod_time, unit_file, config0, ret, exc, did_read,
                   args, platform>>

\* the state a service call leaves; log keeps the call's name only
Applied(name, r) ==
    /\ heap' = r.st.heap
    /\ config_file' = r.st.file
    /\ __last_mod_time' = r.st.last
    /\ unit_file' = r.st.unit
    /\ ret' = r.ret
    /\ exc' = r.exc
    /\ pc' = "called"
    /\ log' = << [call |-> name] >>
    /\ UNCHANGED <<config0, did_read, args, platform>>

ProcessInstall ==
    /\ pc \in Live
    /\ \E in \in (IF __systemd_config_exists(St) THEN {NoInput} ELSE InstallInputs) :
          Applied("service_install", service_install(St, in))

ProcessRemove ==
    /\ pc \in Live
    /\ \E in \in (IF __systemd_config_exists(St) THEN RemoveInputs ELSE {NoInput}) :
          Applied("service_remove", service_remove(St, in))

ProcessUpgrade ==
    /\ pc \in Live
    /\ \E in \in (IF __systemd_config_exists(St) THEN UpgradeInputs ELSE {NoUpgradeInput}) :
          Applied("service_upgrade", service_upgrade(St, in))

NextProcess ==
    \/ TMConfigInit
    \/ Get
    \/ ConfigCheckCached
    \/ WriteCached
    \/ ProcessInstall
    \/ ProcessRemove
    \/ ProcessUpgrade

SpecProcess == InitProcess /\ [][NextProcess]_vars

\* C20: DEF_CFG, with its bot and systemd_service dicts, has the content it
\* was defined with.
C20_DefaultSchemaImmutable ==
    Dump(heap, DEF_ROOT) = DefaultDoc

\* the cached document holds the very dict of DEF_CFG at key
Shares(key) ==
    /\ Has(heap[CFG_ROOT], key)
    /\ Item(heap[CFG_ROOT], key) = Item(heap[DEF_ROOT], key)

\* C20 witness: the cached document shares a dict with DEF_CFG and a service
\* call has changed that document since.
C20_Witness ==
    /\ Shares("bot")
    /\ pc = "called"
    /\ log[1].call = "service_upgrade"
    /\ exc = "none"
    /\ ret = TRUE

-----------------------------------------------------------------------------
(* Properties of the service calls, under SpecService.  Each is stated of   *)
(* the state a call leaves (pc = "called"), with the state before the call  *)
(* taken from log.                                                          *)

Last == log[1]

VersionOf(doc) == At(doc, <<"systemd_service", "version">>).num

\* ServiceRecord.version in the cached document
CachedVersion == VersionOf(UserDoc)

\* the unit file service_install is to write: the template with the launch
\* script's absolute path in the placeholder's place
RenderedUnit ==
    [exists |-> TRUE,
     text |-> <<"[Service] ExecStart=", ShellScriptAbsPath, " [Install]">>]

After(name) == pc = "called" /\ Last.call = name

\* C11: a service_install that follows a service_install which returned True
\* returns False and changes nothing: the unit file is the rendered template
\* as before, the backing file and the cached document are as before, and
\* ServiceRecord.version is the built-in version.
C11_InstallTwice ==
    (After("service_install") /\ Last.prev.call = "service_install" /\ Last.prev.ok) =>
        /\ exc = "none"
        /\ ret = FALSE
        /\ unit_file = Last.unit
        /\ unit_file = RenderedUnit
        /\ config_file = Last.file
        /\ UserDoc = Last.cached
        /\ PersistedVersion = __version
        /\ CachedVersion = __version

\* C11 witness: the second of two service_install calls has returned False
\* on the unit file the first one wrote.
C11_Witness ==
    /\ After("service_install")
    /\ Last.prev.call = "service_install"
    /\ Last.prev.ok
    /\ exc = "none"
    /\ ret = FALSE
    /\ unit_file = RenderedUnit

\* C12: after a service_install that found no unit file and in which a file
\* operation failed, there is no unit file, ServiceRecord.version is as
\* before (on disk and in the cache), and the call did not return True.
C12_FailedInstallLeavesAbsent ==
    (After("service_install") /\ ~Last.unit.exists /\ Last.fail # "none") =>
        /\ ~unit_file.exists
        /\ PersistedVersion = VersionOf(Last.file.content)
        /\ CachedVersion = VersionOf(Last.cached)
        /\ ~(exc = "none" /\ ret = TRUE)

\* C13: service_remove with the unit file present and no failure deletes the
\* unit file, leaves ServiceRecord.version at the default -1 on disk and in
\* the cache, and returns True; with the unit file absent it returns False
\* and changes neither the backing file nor the cached document.
C13_Remove ==
    After("service_remove") =>
        /\ (Last.unit.exists /\ Last.fail = "none") =>
              /\ exc = "none"
              /\ ret = TRUE
              /\ ~unit_file.exists
              /\ PersistedVersion = VersionOf(DefaultDoc)
              /\ PersistedVersion = -1
              /\ CachedVersion = -1
              /\ config_file.content = UserDoc
        /\ ~Last.unit.exists =>
              /\ exc = "none"
              /\ ret = FALSE
              /\ ~unit_file.exists
              /\ config_file = Last.file
              /\ UserDoc = Last.cached

\* C13 witness: service_remove has removed an installed service of the
\* built-in version.
C13_Witness ==
    /\ After("service_remove")
    /\ Last.unit = RenderedUnit
    /\ VersionOf(Last.file.content) = __version
    /\ exc = "none"
    /\ ret = TRUE
    /\ ~unit_file.exists
    /\ PersistedVersion = -1

\* C14: when the deletion of the unit file fails in service_remove, the
\* call returns False, the unit file is still there, and the backing file
\* and the cached document (ServiceRecord.version with them) are as before.
C14_FailedRemove ==
    (After("service_remove") /\ Last.unit.exists /\ Last.fail = "remove") =>
        /\ exc = "none"
        /\ ret = FALSE
        /\ unit_file = Last.unit
        /\ config_file = Last.file
        /\ UserDoc = Last.cached
        /\ PersistedVersion = VersionOf(Last.file.content)
        /\ CachedVersion = VersionOf(Last.cached)

\* C14 witness: the deletion failed on an installed service of the built-in
\* version.
C14_Witness ==
    /\ After("service_remove")
    /\ Last.fail = "remove"
    /\ Last.unit = RenderedUnit
    /\ unit_file = RenderedUnit
    /\ PersistedVersion = __version
    /\ exc = "none"
    /\ ret = FALSE

\* a call that did nothing and returned False
NoOp ==
    /\ exc = "none"
    /\ ret = FALSE
    /\ unit_file = Last.unit
    /\ config_file = Last.file
    /\ UserDoc = Last.cached
    /\ PersistedVersion = VersionOf(Last.file.content)
    /\ CachedVersion = VersionOf(Last.seen)

C16_Upgrade ==
    (/\ After("service_upgrade")
     /\ Last.unit.exists
     /\ VersionOf(Last.seen) < __version
     /\ Last.choice = "y"
     /\ Last.fail = "none") =>
        /\ Last.calls = << "service_remove", "service_install", "__update_cfg_values" >>
        /\ exc = "none"
        /\ ret = TRUE
        /\ unit_file = RenderedUnit
        /\ CachedVersion = __version
        /\ PersistedVersion = __version
        /\ config_file.content = UserDoc

\* C16 witness: service_upgrade has replaced a complete unit file whose
\* record was older.
C16_Witness ==
    /\ After("service_upgrade")
    /\ Last.unit = RenderedUnit
    /\ VersionOf(Last.seen) < __version
    /\ Last.choice = "y"
    /\ Last.calls = << "service_remove", "service_install", "__update_cfg_values" >>
    /\ exc = "none"
    /\ ret = TRUE
    /\ PersistedVersion = __version

\* C17: status reports installed exactly when the unit file exists; right
\* after a service_install that returned True it reports (True, built-in
\* version, unit path), right after a service_remove that returned True
\* (False, None, None).
C17_Status ==
    After("service_status") =>
        /\ exc = "none"
        /\ Last.status.installed = unit_file.exists
        /\ (Last.prev.call = "service_install" /\ Last.prev.ok) =>
              Last.status = [installed |-> TRUE, version |-> __version,
                             path |-> FinalPath]
        /\ (Last.prev.call = "service_remove" /\ Last.prev.ok) =>
              Last.status = [installed |-> FALSE, version |-> None, path |-> None]

\* C17 witness: status was asked right after a service_install that
\* returned True.
C17_Witness ==
    /\ After("service_status")
    /\ Last.prev.call = "service_install"
    /\ Last.prev.ok
    /\ exc = "none"
    /\ Last.status.installed
    /\ Last.status.version = __version

\* the unit file and the persisted ServiceRecord.version before the call
\* disagree
InconsistentBefore ==
    \/ Last.unit.exists /\ VersionOf(Last.file.content) = -1
    \/ ~Last.unit.exists /\ VersionOf(Last.file.content) = __version

\* C18: service_install called in an Inconsistent state, with no failing file
\* operation, writes the unit file, sets ServiceRecord.version to the
\* built-in version and returns True.
C18_InstallOnInconsistent ==
    (After("service_install") /\ InconsistentBefore /\ Last.fail = "none") =>
        /\ exc = "none"
        /\ ret = TRUE
        /\ unit_file = RenderedUnit
        /\ PersistedVersion = __version

\* C23: when service_upgrade returns False, the unit file and
\* ServiceRecord.version, cached and on disk, are what they were before the
\* call; in particular after the operator's yes, a successful removal and a
\* failed installation.
C23_FailedUpgradeRestores ==
    (After("service_upgrade") /\ exc = "none" /\ ret = FALSE) =>
        /\ unit_file = Last.unit
        /\ PersistedVersion = VersionOf(Last.file.content)
        /\ CachedVersion = VersionOf(Last.seen)

\* C26: service_install always ends by returning a boolean, and when opening
\* the template file or opening the unit file for writing fails it returns
\* False: no exception leaves the call.
C26_InstallReturnsBoolean ==
    After("service_install") =>
        /\ exc = "none"
        /\ ret \in BOOLEAN
        /\ Last.fail \in {"open_template", "open_final"} => ret = FALSE

====
